---- MODULE Spec2Model ----
(***************************************************************************)
(* The GraphBolt tutorial notebooks (walkthrough, link prediction, node    *)
(* classification) as state machines: the import guard cell, the datapipe  *)
(* construction cells, the minibatch conversion helper and the training    *)
(* and evaluation loops.                                                   *)
(***************************************************************************)
EXTENDS Integers, Sequences, FiniteSets, TLC

VARIABLES
    nbk,        \* the notebook being run
    pc,         \* position of the running cell
    idx,        \* index of the next statement of a statement list
    names,      \* global names bound in the kernel's namespace
    environ,    \* keys set in os.environ
    installed,  \* value of the global `installed` (meaningful once bound)
    error,      \* the exception bound by `except ImportError as error`
    stdout,     \* lines written by print()
    raised      \* the exception that escaped the cell, or NoException

guardVars == <<nbk, pc, idx, names, environ, installed, error, stdout, raised>>

VARIABLES
    graph,            \* the sampling graph (fused CSC)
    sets,             \* the item sets bound in the kernel, by variable name
    datapipe,         \* value of the global `datapipe`: the chained stages
    loaders,          \* the data loaders bound in the kernel, by variable name
    it,               \* the live iterator over a datapipe or data loader
    stage,            \* stages already applied to the minibatch in production
    wip,              \* the minibatch in production
    ready,            \* minibatches produced and not yet handed to the loop
    data,             \* value of the global `data`: the minibatch in the loop body
    printed,          \* the object most recently passed to print()
    bidx,             \* index of the next statement of the epoch loop's body
    pass,             \* the loop over a data loader that is running
    mode,             \* "train" after model.train(), "eval" after model.eval()
    epoch,            \* value of the loop variable `epoch`
    step,             \* value of the loop variable `step`
    finished,         \* minibatches whose loop body has finished in this pass
    started,          \* minibatches whose production has started in this pass
    compacted_pairs,  \* first result of to_binary_link_dgl_computing_pack
    labels,           \* its second result (training), or the accumulated labels
    label,            \* its second result in the evaluation loop
    y,                \* output of the model's forward pass
    logits,           \* accumulated outputs, one entry per minibatch
    opt_steps,        \* optimizer steps taken so far
    accuracy,         \* last validation accuracy computed
    model_file,       \* content of the file holding the saved model
    delivered,        \* minibatches handed to the evaluation loop in this run
    runs,             \* the `delivered` sequences of the completed evaluation runs
    trace             \* what the epoch loop has done so far, in order

dataVars == <<graph, sets>>
pipeVars == <<datapipe, loaders>>
iterVars == <<it, stage, wip, ready, started>>
loopVars == <<bidx, pass, mode, data, printed, epoch, step, finished,
              compacted_pairs, labels, label, y, logits, opt_steps, accuracy,
              model_file, delivered, runs, trace>>

VARIABLES
    cell,         \* number of the code cell being run, the import guard cell being 1
    bound_in,     \* for each global name bound after the guard cell, the cell that bound it
    cross_reads   \* reads, by a cell, of a global name that an earlier cell bound

cellVars == <<cell, bound_in, cross_reads>>

runVars == <<dataVars, pipeVars, iterVars, loopVars, cellVars>>

vars == <<guardVars, runVars>>

Notebooks == {"walkthrough", "link_prediction", "node_classification"}


(***************************************************************************)
(* Tensors, item sets and the sampling graph                               *)
(***************************************************************************)

\* Range of the random draws a sampler makes in one call.
MaxSeed == 1

Seeds == 0 .. MaxSeed

Min(a, b) == IF a < b THEN a ELSE b

Range(s) == { s[i] : i \in DOMAIN s }

\* A one-dimensional tensor: its dtype and its entries.
Tensor(dtype, entries) == [dtype |-> dtype, data |-> entries]

\* node_pairs, as the walkthrough's dataset cell writes them.
node_pairs ==
    << <<7, 0>>, <<6, 0>>, <<1, 3>>, <<3, 3>>, <<2, 4>>, <<8, 4>>, <<1, 4>>,
       <<2, 4>>, <<1, 5>>, <<9, 6>>, <<0, 6>>, <<8, 6>>, <<7, 7>>, <<7, 7>>,
       <<4, 7>>, <<6, 8>>, <<5, 8>>, <<9, 9>>, <<4, 9>>, <<4, 9>>, <<5, 9>>,
       <<9, 9>>, <<5, 9>>, <<9, 9>>, <<7, 9>> >>

\* gb.ItemSet(node_pairs, names="node_pairs")
item_set == [names |-> <<"node_pairs">>,
             items |-> [i \in DOMAIN node_pairs |-> << node_pairs[i] >>]]

\* gb.from_fused_csc(indptr, indices, ...) of the walkthrough.
WalkthroughGraph ==
    [indptr  |-> <<0, 2, 2, 2, 4, 8, 9, 12, 15, 17, 25>>,
     indices |-> <<7, 6, 1, 3, 2, 8, 1, 2, 1, 9, 0, 8, 7, 7, 4, 6, 5, 9, 4, 4,
                   5, 9, 5, 9, 7>>]

\* A three-node graph: node 0 has no in-edge, node 2 has three.
TriangleGraph ==
    [indptr  |-> <<0, 0, 1, 4>>,
     indices |-> <<2, 0, 1, 2>>]

NumNodes(g) == Len(g.indptr) - 1

NumEdges(g) == Len(g.indices)

Nodes(g) == 0 .. NumNodes(g) - 1

\* The in-edges of node v, as positions of g.indices (edge ids + 1).
InEdges(g, v) == { e \in 1 .. NumEdges(g) : g.indptr[v + 1] < e /\ e <= g.indptr[v + 2] }

InEdgeSeq(g, v) == [k \in 1 .. (g.indptr[v + 2] - g.indptr[v + 1]) |-> g.indptr[v + 1] + k]

EdgeSrc(g, e) == g.indices[e]

EdgeDst(g, e) == CHOOSE v \in Nodes(g) : e \in InEdges(g, v)

\* The i-th item of a built-in dataset's edge item set: edge i of the graph,
\* wrapping around.
EdgePair(g, i) ==
    LET e == ((i - 1) % NumEdges(g)) + 1 IN << EdgeSrc(g, e), EdgeDst(g, e) >>

(***************************************************************************)
(* The datapipe stages of the package                                      *)
(***************************************************************************)

\* The order an ItemSampler visits the items in: the items' own order, or
\* with shuffle one of the permutations the seed r stands for.
ItemOrder(items, shuffle, r) ==
    IF shuffle /\ Len(items) > 0
    THEN [i \in 1 .. Len(items) |-> items[((i - 1 + r) % Len(items)) + 1]]
    ELSE items

\* The minibatch an ItemSampler yields for the items of `order` after the
\* first `pos`: at most batch_size items, one column per name.
ItemBatch(item_names, order, pos, batch_size) ==
    LET n == Min(batch_size, Len(order) - pos) IN
    [c \in Range(item_names) |->
        LET j == CHOOSE j \in DOMAIN item_names : item_names[j] = c IN
        [i \in 1 .. n |-> order[pos + i][j]]]

\* sample_uniform_negative(graph, negative_ratio): negative_ratio destination
\* nodes drawn for each positive pair.
SampleUniformNegative(mb, g, negative_ratio, r) ==
    mb @@ ("negative_dsts" :>
             [i \in 1 .. Len(mb.node_pairs) |->
                [j \in 1 .. negative_ratio |-> (r + i + j) % NumNodes(g)]])

\* The nodes a minibatch asks neighbors for.
SeedNodes(mb) ==
    IF "seed_nodes" \in DOMAIN mb
    THEN Range(mb.seed_nodes)
    ELSE UNION { {p[1], p[2]} : p \in Range(mb.node_pairs) }
         \cup (IF "negative_dsts" \in DOMAIN mb
               THEN UNION { Range(d) : d \in Range(mb.negative_dsts) }
               ELSE {})

\* The in-edges kept for one node: all of them with fanout -1 or when there
\* are no more than fanout, otherwise fanout of them drawn at random.
PickEdges(g, v, fanout, r) ==
    LET es == InEdgeSeq(g, v) IN
    IF fanout = -1 \/ fanout >= Len(es)
    THEN Range(es)
    ELSE { es[((r + t) % Len(es)) + 1] : t \in 0 .. fanout - 1 }

\* sample_neighbor(graph, fanouts): one sampled subgraph per layer, sampled
\* from the seeds outwards, the layer next to the seeds being the last.
RECURSIVE SampleLayers(_, _, _, _)
SampleLayers(g, seeds, fanouts, r) ==
    IF fanouts = << >>
    THEN [subgraphs |-> << >>, input_nodes |-> seeds]
    ELSE LET k     == fanouts[Len(fanouts)]
             edges == UNION { PickEdges(g, v, k, r) : v \in seeds }
             srcs  == { EdgeSrc(g, e) : e \in edges }
             rest  == SampleLayers(g, seeds \cup srcs,
                                   SubSeq(fanouts, 1, Len(fanouts) - 1), r)
         IN [subgraphs   |-> Append(rest.subgraphs,
                                    [dst_nodes |-> seeds, edges |-> edges]),
             input_nodes |-> rest.input_nodes]

SampleNeighbor(mb, g, fanouts, r) ==
    LET s == SampleLayers(g, SeedNodes(mb), fanouts, r) IN
    mb @@ ("sampled_subgraphs" :> s.subgraphs) @@ ("input_nodes" :> s.input_nodes)

\* fetch_feature(store, node_feature_keys, edge_feature_keys): the features
\* of the input nodes and of the sampled edges, by key.
FetchFeature(mb, node_feature_keys, edge_feature_keys) ==
    mb @@ ("node_features" :>
             [k \in Range(node_feature_keys) |-> mb.input_nodes])
       @@ ("edge_features" :>
             [k \in Range(edge_feature_keys) |->
                [l \in DOMAIN mb.sampled_subgraphs |-> mb.sampled_subgraphs[l].edges]])

\* tensor.view(-1) of a two-dimensional tensor: its rows one after another.
Flatten(rows) ==
    IF rows = << >> THEN << >>
    ELSE LET w == Len(rows[1]) IN
         [k \in 1 .. Len(rows) * w |-> rows[((k - 1) \div w) + 1][((k - 1) % w) + 1]]

\* to_dgl(): the DGLMiniBatch of a minibatch. The positive pairs become a
\* (src, dst) pair of tensors; each negative destination is paired with the
\* source of its positive pair.
ToDgl(mb) ==
    [blocks |-> mb.sampled_subgraphs,
     input_nodes |-> mb.input_nodes,
     node_features |-> mb.node_features,
     edge_features |-> mb.edge_features,
     device |-> "host"]
    @@ (IF "node_pairs" \in DOMAIN mb
        THEN "positive_node_pairs" :>
               << Tensor("int64", [i \in DOMAIN mb.node_pairs |-> mb.node_pairs[i][1]]),
                  Tensor("int64", [i \in DOMAIN mb.node_pairs |-> mb.node_pairs[i][2]]) >>
        ELSE "seed_nodes" :> mb.seed_nodes)
    @@ (IF "negative_dsts" \in DOMAIN mb
        THEN "negative_node_pairs" :>
               << Tensor("int64",
                         Flatten([i \in DOMAIN mb.negative_dsts |->
                                    [j \in DOMAIN mb.negative_dsts[i] |->
                                       mb.node_pairs[i][1]]])),
                  Tensor("int64", Flatten(mb.negative_dsts)) >>
        ELSE << >>)
    @@ (IF "labels" \in DOMAIN mb
        THEN "labels" :> Tensor("int64", mb.labels)
        ELSE << >>)

\* copy_to(device)
CopyTo(mb, device) == [mb EXCEPT !.device = device]

(***************************************************************************)
(* The notebooks' cells                                                    *)
(***************************************************************************)

\* The walkthrough with batches of four items.
WalkthroughCellsBatchOfFour ==
    << [op |-> "ItemSampler", item_set |-> "item_set", batch_size |-> 4,
        shuffle |-> FALSE],
       [op |-> "sample_uniform_negative", negative_ratio |-> 1],
       [op |-> "sample_neighbor", fanouts |-> <<1>>],
       [op |-> "fetch_feature", node_feature_keys |-> <<"feat">>,
        edge_feature_keys |-> <<"feat">>],
       [op |-> "to_dgl"],
       [op |-> "copy_to", device |-> "cuda"] >>

\* Walkthrough: one stage per cell, each followed by print(next(iter(datapipe))).
WalkthroughCells ==
    << [op |-> "ItemSampler", item_set |-> "item_set", batch_size |-> 3,
        shuffle |-> FALSE],
       [op |-> "sample_uniform_negative", negative_ratio |-> 1],
       [op |-> "sample_neighbor", fanouts |-> <<1>>],
       [op |-> "fetch_feature", node_feature_keys |-> <<"feat">>,
        edge_feature_keys |-> <<"feat">>],
       [op |-> "to_dgl"],
       [op |-> "copy_to", device |-> "cuda"] >>

\* The training pipeline drawing one negative per positive, as the walkthrough does.
LPTrainCellOneNegative ==
    << [op |-> "ItemSampler", item_set |-> "train_set", batch_size |-> 256,
        shuffle |-> TRUE],
       [op |-> "sample_uniform_negative", negative_ratio |-> 1],
       [op |-> "sample_neighbor", fanouts |-> <<5, 5, 5>>],
       [op |-> "fetch_feature", node_feature_keys |-> <<"feat">>,
        edge_feature_keys |-> << >>],
       [op |-> "to_dgl"],
       [op |-> "copy_to", device |-> "cpu"],
       [op |-> "MultiProcessDataLoader", target |-> "train_dataloader",
        num_workers |-> 0] >>

\* The training pipeline with a data loader that uses two worker processes.
LPTrainCellTwoWorkers ==
    << [op |-> "ItemSampler", item_set |-> "train_set", batch_size |-> 256,
        shuffle |-> TRUE],
       [op |-> "sample_uniform_negative", negative_ratio |-> 5],
       [op |-> "sample_neighbor", fanouts |-> <<5, 5, 5>>],
       [op |-> "fetch_feature", node_feature_keys |-> <<"feat">>,
        edge_feature_keys |-> << >>],
       [op |-> "to_dgl"],
       [op |-> "copy_to", device |-> "cpu"],
       [op |-> "MultiProcessDataLoader", target |-> "train_dataloader",
        num_workers |-> 2] >>

\* Link prediction: the training pipeline and its data loader.
LPTrainCell ==
    << [op |-> "ItemSampler", item_set |-> "train_set", batch_size |-> 256,
        shuffle |-> TRUE],
       [op |-> "sample_uniform_negative", negative_ratio |-> 5],
       [op |-> "sample_neighbor", fanouts |-> <<5, 5, 5>>],
       [op |-> "fetch_feature", node_feature_keys |-> <<"feat">>,
        edge_feature_keys |-> << >>],
       [op |-> "to_dgl"],
       [op |-> "copy_to", device |-> "cpu"],
       [op |-> "MultiProcessDataLoader", target |-> "train_dataloader",
        num_workers |-> 0] >>

\* The evaluation pipeline moving to the device before converting.
LPEvalCellDeviceFirst ==
    << [op |-> "ItemSampler", item_set |-> "test_set", batch_size |-> 256,
        shuffle |-> FALSE],
       [op |-> "sample_neighbor", fanouts |-> <<-1, -1>>],
       [op |-> "fetch_feature", node_feature_keys |-> <<"feat">>,
        edge_feature_keys |-> << >>],
       [op |-> "copy_to", device |-> "cpu"],
       [op |-> "to_dgl"],
       [op |-> "MultiProcessDataLoader", target |-> "eval_dataloader",
        num_workers |-> 0] >>

\* The evaluation pipeline sampling one neighbor per node and layer.
LPEvalCellSampled ==
    << [op |-> "ItemSampler", item_set |-> "test_set", batch_size |-> 256,
        shuffle |-> FALSE],
       [op |-> "sample_neighbor", fanouts |-> <<1, 1>>],
       [op |-> "fetch_feature", node_feature_keys |-> <<"feat">>,
        edge_feature_keys |-> << >>],
       [op |-> "to_dgl"],
       [op |-> "copy_to", device |-> "cpu"],
       [op |-> "MultiProcessDataLoader", target |-> "eval_dataloader",
        num_workers |-> 0] >>

\* Link prediction: the evaluation pipeline and its data loader.
LPEvalCell ==
    << [op |-> "ItemSampler", item_set |-> "test_set", batch_size |-> 256,
        shuffle |-> FALSE],
       [op |-> "sample_neighbor", fanouts |-> <<-1, -1>>],
       [op |-> "fetch_feature", node_feature_keys |-> <<"feat">>,
        edge_feature_keys |-> << >>],
       [op |-> "to_dgl"],
       [op |-> "copy_to", device |-> "cpu"],
       [op |-> "MultiProcessDataLoader", target |-> "eval_dataloader",
        num_workers |-> 0] >>

\* The node classification training pipeline without shuffling.
NCTrainCellUnshuffled ==
    << [op |-> "ItemSampler", item_set |-> "train_set", batch_size |-> 1024,
        shuffle |-> FALSE],
       [op |-> "sample_neighbor", fanouts |-> <<4, 4>>],
       [op |-> "fetch_feature", node_feature_keys |-> <<"feat">>,
        edge_feature_keys |-> << >>],
       [op |-> "to_dgl"],
       [op |-> "copy_to", device |-> "cpu"],
       [op |-> "MultiProcessDataLoader", target |-> "train_dataloader",
        num_workers |-> 0] >>

\* Node classification: the training pipeline and its data loader.
NCTrainCell ==
    << [op |-> "ItemSampler", item_set |-> "train_set", batch_size |-> 1024,
        shuffle |-> TRUE],
       [op |-> "sample_neighbor", fanouts |-> <<4, 4>>],
       [op |-> "fetch_feature", node_feature_keys |-> <<"feat">>,
        edge_feature_keys |-> << >>],
       [op |-> "to_dgl"],
       [op |-> "copy_to", device |-> "cpu"],
       [op |-> "MultiProcessDataLoader", target |-> "train_dataloader",
        num_workers |-> 0] >>

\* Node classification: the validation pipeline and its data loader.
NCValidCell ==
    << [op |-> "ItemSampler", item_set |-> "valid_set", batch_size |-> 1024,
        shuffle |-> FALSE],
       [op |-> "sample_neighbor", fanouts |-> <<4, 4>>],
       [op |-> "fetch_feature", node_feature_keys |-> <<"feat">>,
        edge_feature_keys |-> << >>],
       [op |-> "to_dgl"],
       [op |-> "copy_to", device |-> "cpu"],
       [op |-> "MultiProcessDataLoader", target |-> "valid_dataloader",
        num_workers |-> 0] >>

\* print(next(iter(datapipe))) after a walkthrough stage.
WalkthroughPeek == [op |-> "peek", source |-> "datapipe", bind |-> FALSE]

\* data = next(iter(train_dataloader)); print(data)
LoaderPeek == [op |-> "peek", source |-> "train_dataloader", bind |-> TRUE]

\* Link prediction: for epoch in range(3): ...
LPTrainLoop ==
    [op |-> "for_epoch", range |-> 3,
     body |-> << [op |-> "model.train"],
                 [op |-> "pass", source |-> "train_dataloader",
                  body |-> <<"unpack", "forward", "optimize">>],
                 [op |-> "print_loss"] >>]

\* Link prediction: the evaluation loop and the AUC.
LPEvalLoop ==
    << [op |-> "reset_lists"],
       [op |-> "pass", source |-> "eval_dataloader",
        body |-> <<"unpack", "forward", "append">>],
       [op |-> "auc"] >>

\* The epoch loop without the break that ends its body.
NCTrainLoopNoBreak ==
    [op |-> "for_epoch", range |-> 10,
     body |-> << [op |-> "model.train"],
                 [op |-> "pass", source |-> "train_dataloader",
                  body |-> <<"forward", "optimize", "postfix">>],
                 [op |-> "model.eval"],
                 [op |-> "reset_lists"],
                 [op |-> "pass", source |-> "valid_dataloader",
                  body |-> <<"append">>],
                 [op |-> "score"] >>]

\* Node classification: for epoch in range(10): ...
NCTrainLoop ==
    [op |-> "for_epoch", range |-> 10,
     body |-> << [op |-> "model.train"],
                 [op |-> "pass", source |-> "train_dataloader",
                  body |-> <<"forward", "optimize", "postfix">>],
                 [op |-> "model.eval"],
                 [op |-> "reset_lists"],
                 [op |-> "pass", source |-> "valid_dataloader",
                  body |-> <<"append">>],
                 [op |-> "score"],
                 [op |-> "break"] >>]

RECURSIVE Interleave(_, _)
Interleave(stmts, s) ==
    IF stmts = << >> THEN << >>
    ELSE << Head(stmts), s >> \o Interleave(Tail(stmts), s)

\* The statements of a notebook after its import guard cell, in cell order.
Program(n) ==
    IF n = "walkthrough"
    THEN << [op |-> "dataset"] >> \o Interleave(WalkthroughCells, WalkthroughPeek)
    ELSE IF n = "link_prediction"
    THEN << [op |-> "dataset"] >> \o LPTrainCell
         \o << LoaderPeek, [op |-> "define_model"], LPTrainLoop,
               [op |-> "model.eval"] >>
         \o LPEvalCell \o LPEvalLoop
    ELSE << [op |-> "dataset"] >> \o NCTrainCell
         \o << LoaderPeek, [op |-> "define_model"] >>
         \o NCValidCell \o << NCTrainLoop >>

\* Position of the evaluation cell's first statement (model.eval()).
EvalCellStart == 1 + Len(LPTrainCell) + 4

(***************************************************************************)
(* to_binary_link_dgl_computing_pack                                       *)
(***************************************************************************)

\* torch.cat((a, b), dim=0)
cat(a, b) == Tensor(a.dtype, a.data \o b.data)

\* torch.ones_like(t), torch.zeros_like(t)
ones_like(t) == Tensor(t.dtype, [i \in DOMAIN t.data |-> 1])

zeros_like(t) == Tensor(t.dtype, [i \in DOMAIN t.data |-> 0])

\* t.float(): same entries, as 32-bit floats
float(t) == Tensor("float32", t.data)

\* A helper that lists the negative pairs first.
to_binary_negatives_first(d) ==
    LET pos_src == d.positive_node_pairs[1]
        pos_dst == d.positive_node_pairs[2]
        neg_src == d.negative_node_pairs[1]
        neg_dst == d.negative_node_pairs[2]
    IN << << cat(neg_src, pos_src), cat(neg_dst, pos_dst) >>,
          float(cat(ones_like(pos_src), zeros_like(neg_src))) >>

to_binary_link_dgl_computing_pack(d) ==
    LET pos_src    == d.positive_node_pairs[1]
        pos_dst    == d.positive_node_pairs[2]
        neg_src    == d.negative_node_pairs[1]
        neg_dst    == d.negative_node_pairs[2]
        pairs      == << cat(pos_src, neg_src), cat(pos_dst, neg_dst) >>
        pos_label  == ones_like(pos_src)
        neg_label  == zeros_like(neg_src)
        all_labels == cat(pos_label, neg_label)
    IN << pairs, float(all_labels) >>

(***************************************************************************)
(* Running a notebook's cells                                              *)
(***************************************************************************)

\* Item-set sizes tried: those that make up to MaxBatches minibatches, the
\* last one full or holding a single item.
MaxBatches == 2

\* Negative destinations stored with each pair of a test set.
MaxTestNegatives == 1

\* Validation accuracy, as a level 0 .. MaxAccuracy.
MaxAccuracy == 1

\* How often the evaluation cell is executed.
MaxRuns == 2

Sizes(batch_size) ==
    { (k - 1) * batch_size + 1 : k \in 1 .. MaxBatches }
    \cup { k * batch_size : k \in 1 .. MaxBatches - 1 }

Graphs == {TriangleGraph, WalkthroughGraph}

\* An item set of node pairs: the graph's edges.
PairItemSet(g, n) ==
    [names |-> <<"node_pairs">>,
     items |-> [i \in 1 .. n |-> << EdgePair(g, i) >>]]

\* A test item set: node pairs, each with its negative destinations.
TestItemSet(g, n, t) ==
    [names |-> <<"node_pairs", "negative_dsts">>,
     items |-> [i \in 1 .. n |->
                  << EdgePair(g, i), [j \in 1 .. t |-> (i + j) % NumNodes(g)] >>]]

\* A node classification item set: seed nodes and their labels.
NodeItemSet(g, n) ==
    [names |-> <<"seed_nodes", "labels">>,
     items |-> [i \in 1 .. n |-> << (i - 1) % NumNodes(g), i % 3 >>]]

\* What the dataset cells of notebook n can bind.
Datasets(n) ==
    IF n = "walkthrough"
    THEN { [graph |-> WalkthroughGraph, sets |-> [item_set |-> item_set]] }
    ELSE IF n = "link_prediction"
    THEN { [graph |-> g,
            sets  |-> [train_set |-> PairItemSet(g, a),
                       test_set  |-> TestItemSet(g, a, t)]] :
             g \in Graphs,
             a \in Sizes(LPTrainCell[1].batch_size),
             t \in 1 .. MaxTestNegatives }
    ELSE { [graph |-> g,
            sets  |-> [train_set |-> NodeItemSet(g, a),
                       valid_set |-> NodeItemSet(g, a),
                       test_set  |-> NodeItemSet(g, a)]] :
             g \in Graphs,
             a \in Sizes(NCTrainCell[1].batch_size) }

NoIterator == [source |-> "none", pipe |-> << >>, num_workers |-> 0, seed |-> 0,
               order |-> << >>, names |-> << >>, pos |-> 0]

NoPass == [op |-> "none", source |-> "none", body |-> << >>]

NoFile == "absent"

IdleLoop ==
    /\ bidx = 0
    /\ pass = NoPass
    /\ mode = "train"
    /\ printed = << >>
    /\ epoch = 0
    /\ step = 0
    /\ finished = 0
    /\ compacted_pairs = << >>
    /\ labels = << >>
    /\ label = << >>
    /\ y = << >>
    /\ logits = << >>
    /\ opt_steps = 0
    /\ accuracy = 0
    /\ model_file = NoFile
    /\ delivered = << >>
    /\ runs = << >>
    /\ trace = << >>

IdleIter ==
    /\ it = NoIterator
    /\ stage = 0
    /\ wip = << >>
    /\ ready = << >>
    /\ started = 0

\* Only the guard cell has run, and no later cell has bound or read a name.
IdleCells ==
    /\ cell = 1
    /\ bound_in = {}
    /\ cross_reads = {}

IdleRun ==
    /\ IdleCells
    /\ graph = TriangleGraph
    /\ sets = << >>
    /\ datapipe = << >>
    /\ loaders = << >>
    /\ data = << >>
    /\ IdleIter
    /\ IdleLoop

(***************************************************************************)
(* The import guard cell                                                   *)
(***************************************************************************)

NoException == [exc |-> "None", msg |-> ""]

\* What an import statement can do: bind the module, or raise.
\* ModuleNotFoundError is a subclass of ImportError; OSError is what a
\* missing shared library raises and is unrelated to ImportError.
ImportOutcomes ==
    { NoException,
      [exc |-> "ModuleNotFoundError", msg |-> "No module named"],
      [exc |-> "ImportError", msg |-> "cannot import name"],
      [exc |-> "OSError", msg |-> "cannot load library"] }

IsSubclass(c, d) ==
    \/ c = d
    \/ c = "ModuleNotFoundError" /\ d = "ImportError"

\* The statements of the cell that precede the try block.
PreGuard(n) ==
    IF n = "walkthrough"
    THEN << [kind |-> "import", module |-> "os", as |-> "os"],
            [kind |-> "import", module |-> "torch", as |-> "torch"],
            [kind |-> "environ", module |-> "TORCH", as |-> ""],
            [kind |-> "environ", module |-> "DGLBACKEND", as |-> ""] >>
    ELSE << [kind |-> "import", module |-> "os", as |-> "os"],
            [kind |-> "import", module |-> "torch", as |-> "torch"],
            [kind |-> "import", module |-> "numpy", as |-> "np"],
            [kind |-> "environ", module |-> "TORCH", as |-> ""],
            [kind |-> "environ", module |-> "DGLBACKEND", as |-> ""],
            [kind |-> "device", module |-> "cpu", as |-> "device"],
            [kind |-> "pip", module |-> "dgl", as |-> ""] >>

\* The import statements inside the try block.
GuardImports(n) ==
    IF n = "walkthrough"
    THEN << [module |-> "dgl.graphbolt", as |-> "gb"] >>
    ELSE << [module |-> "dgl", as |-> "dgl"],
            [module |-> "dgl.graphbolt", as |-> "gb"] >>

\* A handler that names only the subclass lets a plain ImportError through.
GuardCatchesOnlyModuleNotFound(e) == e = "ModuleNotFoundError"

\* except ImportError as error
GuardCatches(e) == IsSubclass(e, "ImportError")

\* print("DGL installed!" if installed else "DGL not found!")
StatusLine(flag) == IF flag THEN "DGL installed!" ELSE "DGL not found!"

InitGuard ==
    /\ nbk \in Notebooks
    /\ pc = "pre"
    /\ idx = 1
    /\ names = {}
    /\ environ = {}
    /\ installed = FALSE
    /\ error = NoException
    /\ stdout = << >>
    /\ raised = NoException
    /\ IdleRun

AdvancePre ==
    /\ idx' = idx + 1
    /\ pc' = IF idx = Len(PreGuard(nbk)) THEN "try" ELSE "pre"

\* import os / import torch / import numpy as np: outside the try block
UnguardedImport ==
    /\ pc = "pre"
    /\ idx <= Len(PreGuard(nbk))
    /\ PreGuard(nbk)[idx].kind = "import"
    /\ \E o \in ImportOutcomes :
         IF o = NoException
         THEN /\ names' = names \cup {PreGuard(nbk)[idx].as}
              /\ AdvancePre
              /\ raised' = raised
         ELSE /\ raised' = o
              /\ pc' = "cell_raised"
              /\ UNCHANGED <<names, idx>>
    /\ UNCHANGED runVars
    /\ UNCHANGED <<nbk, environ, installed, error, stdout>>

\* os.environ['TORCH'] = torch.__version__ ; os.environ['DGLBACKEND'] = "pytorch"
SetEnviron ==
    /\ pc = "pre"
    /\ idx <= Len(PreGuard(nbk))
    /\ PreGuard(nbk)[idx].kind = "environ"
    /\ environ' = environ \cup {PreGuard(nbk)[idx].module}
    /\ AdvancePre
    /\ UNCHANGED runVars
    /\ UNCHANGED <<nbk, names, installed, error, stdout, raised>>

\* device = torch.device("cpu")
AssignDevice ==
    /\ pc = "pre"
    /\ idx <= Len(PreGuard(nbk))
    /\ PreGuard(nbk)[idx].kind = "device"
    /\ names' = names \cup {"device"}
    /\ AdvancePre
    /\ UNCHANGED runVars
    /\ UNCHANGED <<nbk, environ, installed, error, stdout, raised>>

\* !pip install ...: a shell escape; its exit status raises nothing
PipInstall ==
    /\ pc = "pre"
    /\ idx <= Len(PreGuard(nbk))
    /\ PreGuard(nbk)[idx].kind = "pip"
    /\ AdvancePre
    /\ UNCHANGED runVars
    /\ UNCHANGED <<nbk, names, environ, installed, error, stdout, raised>>

\* try: import dgl ; import dgl.graphbolt as gb
GuardedImport ==
    /\ pc = "try"
    /\ \E o \in ImportOutcomes :
         LET k == idx - Len(PreGuard(nbk)) IN
         IF o = NoException
         THEN /\ names' = names \cup {GuardImports(nbk)[k].as}
              /\ idx' = idx + 1
              /\ pc' = IF k = Len(GuardImports(nbk))
                       THEN "set_installed" ELSE "try"
              /\ UNCHANGED <<error, raised>>
         ELSE IF GuardCatches(o.exc)
         THEN /\ error' = o
              /\ names' = names \cup {"error"}
              /\ pc' = "except"
              /\ UNCHANGED <<idx, raised>>
         ELSE /\ raised' = o
              /\ pc' = "guard_raised"
              /\ UNCHANGED <<idx, names, error>>
    /\ UNCHANGED runVars
    /\ UNCHANGED <<nbk, environ, installed, stdout>>

\* installed = True
SetInstalledTrue ==
    /\ pc = "set_installed"
    /\ installed' = TRUE
    /\ names' = names \cup {"installed"}
    /\ pc' = "status"
    /\ UNCHANGED runVars
    /\ UNCHANGED <<nbk, idx, environ, error, stdout, raised>>

\* except ImportError as error: installed = False
ExceptSetInstalled ==
    /\ pc = "except"
    /\ installed' = FALSE
    /\ names' = names \cup {"installed"}
    /\ pc' = "except_print"
    /\ UNCHANGED runVars
    /\ UNCHANGED <<nbk, idx, environ, error, stdout, raised>>

\* print(error); the handler's end unbinds `error`
ExceptPrintError ==
    /\ pc = "except_print"
    /\ stdout' = Append(stdout, error.msg)
    /\ names' = names \ {"error"}
    /\ pc' = "status"
    /\ UNCHANGED runVars
    /\ UNCHANGED <<nbk, idx, environ, installed, error, raised>>

\* print("DGL installed!" if installed else "DGL not found!")
PrintStatus ==
    /\ pc = "status"
    /\ stdout' = Append(stdout, StatusLine(installed))
    /\ pc' = "cell_done"
    /\ UNCHANGED runVars
    /\ UNCHANGED <<nbk, idx, names, environ, installed, error, raised>>

NextGuard ==
    \/ UnguardedImport
    \/ SetEnviron
    \/ AssignDevice
    \/ PipInstall
    \/ GuardedImport
    \/ SetInstalledTrue
    \/ ExceptSetInstalled
    \/ ExceptPrintError
    \/ PrintStatus

SpecGuard == InitGuard /\ [][NextGuard]_vars


\* The kernel after an import guard cell that found the package.
Init ==
    /\ nbk \in Notebooks
    /\ pc = "stmt"
    /\ idx = 1
    /\ names = {"os", "torch", "gb", "installed"}
    /\ environ = {"TORCH", "DGLBACKEND"}
    /\ installed = TRUE
    /\ error = NoException
    /\ stdout = << StatusLine(TRUE) >>
    /\ raised = NoException
    /\ \E d \in Datasets(nbk) :
         /\ graph = d.graph
         /\ sets = d.sets
    /\ datapipe = << >>
    /\ loaders = << >>
    /\ data = << >>
    /\ IdleIter
    /\ IdleLoop
    /\ IdleCells

Stmt == IF bidx > 0 THEN Program(nbk)[idx].body[bidx] ELSE Program(nbk)[idx]

AtStmt(op) ==
    /\ pc = "stmt"
    /\ idx <= Len(Program(nbk))
    /\ Stmt.op = op

AfterCell(i) == IF i > Len(Program(nbk)) THEN "nb_done" ELSE "stmt"

\* Leave the epoch loop: the statement after it is next.
LeaveLoop ==
    /\ bidx' = 0
    /\ idx' = idx + 1
    /\ epoch' = epoch
    /\ pc' = AfterCell(idx + 1)

\* Go to the next statement; at the end of the epoch loop's body, to the
\* next epoch of the range, or out of the loop.
Advance ==
    IF bidx = 0
    THEN /\ idx' = idx + 1
         /\ pc' = AfterCell(idx + 1)
         /\ UNCHANGED <<bidx, epoch>>
    ELSE IF bidx < Len(Program(nbk)[idx].body)
    THEN /\ bidx' = bidx + 1
         /\ pc' = "stmt"
         /\ UNCHANGED <<idx, epoch>>
    ELSE IF epoch + 1 < Program(nbk)[idx].range
    THEN /\ bidx' = 1
         /\ epoch' = epoch + 1
         /\ pc' = "stmt"
         /\ UNCHANGED idx
    ELSE LeaveLoop

kernelVars == <<nbk, names, environ, installed, error, raised, cellVars>>

\* The dataset cells: the item set(s), the graph and the feature store
LoadDataset ==
    /\ AtStmt("dataset")
    /\ Advance
    /\ UNCHANGED <<kernelVars, stdout, dataVars, pipeVars, iterVars>>
    /\ UNCHANGED <<pass, mode, data, printed, step, finished, compacted_pairs,
                   labels, label, y, logits, opt_steps, accuracy, model_file,
                   delivered, runs, trace>>

restVars == <<kernelVars, stdout, dataVars, iterVars, pass, mode, data, printed,
              step, finished, compacted_pairs, labels, label, y, logits,
              opt_steps, accuracy, model_file, delivered, runs, trace>>

\* datapipe = gb.ItemSampler(item_set, batch_size=..., shuffle=...)
BuildItemSampler ==
    /\ AtStmt("ItemSampler")
    /\ datapipe' = << Stmt >>
    /\ Advance
    /\ UNCHANGED <<loaders, restVars>>

\* datapipe = datapipe.sample_uniform_negative(graph, negative_ratio)
BuildSampleUniformNegative ==
    /\ AtStmt("sample_uniform_negative")
    /\ datapipe' = Append(datapipe, Stmt)
    /\ Advance
    /\ UNCHANGED <<loaders, restVars>>

\* datapipe = datapipe.sample_neighbor(graph, fanouts)
BuildSampleNeighbor ==
    /\ AtStmt("sample_neighbor")
    /\ datapipe' = Append(datapipe, Stmt)
    /\ Advance
    /\ UNCHANGED <<loaders, restVars>>

\* datapipe = datapipe.fetch_feature(feature, node_feature_keys=[...])
BuildFetchFeature ==
    /\ AtStmt("fetch_feature")
    /\ datapipe' = Append(datapipe, Stmt)
    /\ Advance
    /\ UNCHANGED <<loaders, restVars>>

\* datapipe = datapipe.to_dgl()
BuildToDgl ==
    /\ AtStmt("to_dgl")
    /\ datapipe' = Append(datapipe, Stmt)
    /\ Advance
    /\ UNCHANGED <<loaders, restVars>>

\* datapipe = datapipe.copy_to(device)
BuildCopyTo ==
    /\ AtStmt("copy_to")
    /\ datapipe' = Append(datapipe, Stmt)
    /\ Advance
    /\ UNCHANGED <<loaders, restVars>>

\* x_dataloader = gb.MultiProcessDataLoader(datapipe, num_workers=...)
BuildDataLoader ==
    /\ AtStmt("MultiProcessDataLoader")
    /\ loaders' = (Stmt.target :> [datapipe |-> datapipe,
                                     num_workers |-> Stmt.num_workers])
                  @@ loaders
    /\ Advance
    /\ UNCHANGED <<datapipe, restVars>>

\* A fresh iterator over the datapipe itself or over a data loader, with the
\* random generator in state r; with shuffle the item order is drawn from it.
NewIterator(source, r) ==
    LET pipe == IF source = "datapipe" THEN datapipe ELSE loaders[source].datapipe
        w    == IF source = "datapipe" THEN 0 ELSE loaders[source].num_workers
    IN [source      |-> source,
        pipe        |-> pipe,
        num_workers |-> w,
        seed        |-> r,
        order       |-> ItemOrder(sets[pipe[1].item_set].items, pipe[1].shuffle, r),
        names       |-> sets[pipe[1].item_set].names,
        pos         |-> 0]

\* The random draw of the stage working on the minibatch in production.
Draw == it.seed + started

\* next(iter(...)): the iterator is created; the minibatch is awaited
Peek ==
    /\ AtStmt("peek")
    /\ \E r \in Seeds : it' = NewIterator(Stmt.source, r)
    /\ pass' = Stmt @@ [body |-> << >>]
    /\ pc' = "next"
    /\ started' = 0
    /\ finished' = 0
    /\ UNCHANGED <<kernelVars, stdout, idx, bidx, epoch, dataVars, pipeVars,
                   stage, wip, ready>>
    /\ UNCHANGED <<mode, data, printed, step, compacted_pairs, labels, label, y,
                   logits, opt_steps, accuracy, model_file, delivered, runs, trace>>

\* for step, data in enumerate(dataloader): the iterator is created
StartPass ==
    /\ AtStmt("pass")
    /\ \E r \in Seeds : it' = NewIterator(Stmt.source, r)
    /\ pass' = Stmt
    /\ pc' = "next"
    /\ started' = 0
    /\ finished' = 0
    /\ delivered' = IF Stmt.source = "eval_dataloader" THEN << >> ELSE delivered
    /\ UNCHANGED <<kernelVars, stdout, idx, bidx, epoch, dataVars, pipeVars,
                   stage, wip, ready>>
    /\ UNCHANGED <<mode, data, printed, step, compacted_pairs, labels, label, y,
                   logits, opt_steps, accuracy, model_file, runs, trace>>

\* Whether the loader may start producing a minibatch: without workers only
\* while the loop waits in next(); with workers whenever its queue has room.
MayStart ==
    IF it.num_workers = 0
    THEN pc = "next" /\ ready = << >>
    ELSE Len(ready) < 2 * it.num_workers

MayContinue == it.num_workers > 0 \/ pc = "next"

consumerVars == <<kernelVars, stdout, pc, idx, dataVars, pipeVars, loopVars>>

\* The ItemSampler yields the next batch of items
ProduceItemSampler ==
    /\ it.source # "none"
    /\ stage = 0
    /\ it.pos < Len(it.order)
    /\ MayStart
    /\ wip' = ItemBatch(it.names, it.order, it.pos, it.pipe[1].batch_size)
    /\ it' = [it EXCEPT !.pos = Min(Len(it.order), it.pos + it.pipe[1].batch_size)]
    /\ stage' = 1
    /\ started' = started + 1
    /\ UNCHANGED <<consumerVars, ready>>

NextStageIs(op) ==
    /\ stage >= 1
    /\ stage < Len(it.pipe)
    /\ it.pipe[stage + 1].op = op
    /\ MayContinue

ProduceNegative ==
    /\ NextStageIs("sample_uniform_negative")
    /\ wip' = SampleUniformNegative(wip, graph,
                                    it.pipe[stage + 1].negative_ratio, Draw)
    /\ stage' = stage + 1
    /\ UNCHANGED <<consumerVars, it, ready, started>>

ProduceNeighbor ==
    /\ NextStageIs("sample_neighbor")
    /\ wip' = SampleNeighbor(wip, graph, it.pipe[stage + 1].fanouts, Draw)
    /\ stage' = stage + 1
    /\ UNCHANGED <<consumerVars, it, ready, started>>

ProduceFetch ==
    /\ NextStageIs("fetch_feature")
    /\ wip' = FetchFeature(wip, it.pipe[stage + 1].node_feature_keys,
                           it.pipe[stage + 1].edge_feature_keys)
    /\ stage' = stage + 1
    /\ UNCHANGED <<consumerVars, it, ready, started>>

ProduceToDgl ==
    /\ NextStageIs("to_dgl")
    /\ wip' = ToDgl(wip)
    /\ stage' = stage + 1
    /\ UNCHANGED <<consumerVars, it, ready, started>>

ProduceCopyTo ==
    /\ NextStageIs("copy_to")
    /\ wip' = CopyTo(wip, it.pipe[stage + 1].device)
    /\ stage' = stage + 1
    /\ UNCHANGED <<consumerVars, it, ready, started>>

\* The last stage hands the minibatch over
Yield ==
    /\ stage >= 1
    /\ stage = Len(it.pipe)
    /\ MayContinue
    /\ ready' = Append(ready, wip)
    /\ wip' = << >>
    /\ stage' = 0
    /\ UNCHANGED <<consumerVars, it, started>>

\* print(next(iter(datapipe))) ; data = next(iter(train_dataloader)); print(data)
DeliverPeek ==
    /\ pc = "next"
    /\ pass.op = "peek"
    /\ ready # << >>
    /\ printed' = Head(ready)
    /\ data' = IF pass.bind THEN Head(ready) ELSE data
    /\ stdout' = Append(stdout, "MiniBatch")
    /\ ready' = << >>
    /\ it' = NoIterator
    /\ pass' = NoPass
    /\ Advance
    /\ UNCHANGED <<kernelVars, dataVars, pipeVars, stage, wip, started>>
    /\ UNCHANGED <<mode, step, finished, compacted_pairs, labels, label, y,
                   logits, opt_steps, accuracy, model_file, delivered, runs, trace>>

\* The loop receives the next minibatch and enters its body
Deliver ==
    /\ pc = "next"
    /\ pass.op = "pass"
    /\ ready # << >>
    /\ data' = Head(ready)
    /\ ready' = Tail(ready)
    /\ step' = finished
    /\ pc' = pass.body[1]
    /\ delivered' = IF pass.source = "eval_dataloader"
                    THEN Append(delivered, Head(ready)) ELSE delivered
    /\ UNCHANGED <<kernelVars, stdout, idx, bidx, epoch, dataVars, pipeVars,
                   it, stage, wip, started>>
    /\ UNCHANGED <<pass, mode, printed, finished, compacted_pairs, labels, label,
                   y, logits, opt_steps, accuracy, model_file, runs, trace>>

\* The loader is exhausted: the loop ends
Exhausted ==
    /\ pc = "next"
    /\ pass.op = "pass"
    /\ ready = << >>
    /\ stage = 0
    /\ it.pos = Len(it.order)
    /\ trace' = Append(trace, [what |-> "pass", source |-> pass.source,
                               epoch |-> epoch, minibatches |-> finished])
    /\ it' = NoIterator
    /\ pass' = NoPass
    /\ Advance
    /\ UNCHANGED <<kernelVars, stdout, dataVars, pipeVars, stage, wip, ready, started>>
    /\ UNCHANGED <<mode, data, printed, step, finished, compacted_pairs, labels,
                   label, y, logits, opt_steps, accuracy, model_file, delivered, runs>>

\* The statement of the loop body after `l`, or the wait for the next minibatch.
BodyNext(l) ==
    LET k == CHOOSE k \in DOMAIN pass.body : pass.body[k] = l
    IN IF k < Len(pass.body) THEN pass.body[k + 1] ELSE "next"

BodyStep(l) ==
    /\ pc' = BodyNext(l)
    /\ finished' = IF BodyNext(l) = "next" THEN finished + 1 ELSE finished

bodyFrame == <<kernelVars, stdout, idx, bidx, epoch, dataVars, pipeVars, iterVars,
               pass, mode, data, printed, step, model_file, delivered, runs, trace>>

\* compacted_pairs, labels = to_binary_link_dgl_computing_pack(data)
Unpack ==
    /\ pc = "unpack"
    /\ LET r == to_binary_link_dgl_computing_pack(data) IN
         /\ compacted_pairs' = r[1]
         /\ IF pass.source = "eval_dataloader"
            THEN label' = r[2] /\ labels' = labels
            ELSE labels' = r[2] /\ label' = label
    /\ BodyStep("unpack")
    /\ UNCHANGED <<bodyFrame, y, logits, opt_steps, accuracy>>

\* y = model(blocks, x): one output row per input node, from the current weights
Forward ==
    /\ pc = "forward"
    /\ y' = [weights |-> opt_steps, rows |-> data.input_nodes]
    /\ BodyStep("forward")
    /\ UNCHANGED <<bodyFrame, compacted_pairs, labels, label, logits, opt_steps,
                   accuracy>>

\* loss ...; optimizer.zero_grad(); loss.backward(); optimizer.step()
Optimize ==
    /\ pc = "optimize"
    /\ opt_steps' = opt_steps + 1
    /\ BodyStep("optimize")
    /\ UNCHANGED <<bodyFrame, compacted_pairs, labels, label, y, logits, accuracy>>

\* accuracy = sklearn.metrics.accuracy_score(...); tq.set_postfix(...)
Postfix ==
    /\ pc = "postfix"
    /\ \E a \in 0 .. MaxAccuracy : accuracy' = a
    /\ BodyStep("postfix")
    /\ UNCHANGED <<bodyFrame, compacted_pairs, labels, label, y, logits, opt_steps>>

\* logits.append(logit); labels.append(label)  /  labels.append(data.labels);
\* predictions.append(model(data.blocks, x).argmax(1))
AppendResults ==
    /\ pc = "append"
    /\ IF pass.source = "eval_dataloader"
       THEN /\ logits' = Append(logits, y)
            /\ labels' = Append(labels, label)
       ELSE /\ logits' = Append(logits, [weights |-> opt_steps,
                                         rows |-> data.input_nodes])
            /\ labels' = Append(labels, data.labels)
    /\ BodyStep("append")
    /\ UNCHANGED <<bodyFrame, compacted_pairs, label, y, opt_steps, accuracy>>

stmtFrame == <<kernelVars, dataVars, pipeVars, iterVars, pass, data, step,
               finished, compacted_pairs, label, y, opt_steps, model_file,
               delivered>>

\* model = ...; optimizer = torch.optim.Adam(model.parameters())
DefineModel ==
    /\ AtStmt("define_model")
    /\ Advance
    /\ UNCHANGED <<stmtFrame, stdout, mode, printed, labels, logits, accuracy,
                   runs, trace>>

\* for epoch in range(n): the first epoch starts
ForEpoch ==
    /\ AtStmt("for_epoch")
    /\ bidx = 0
    /\ IF Stmt.range > 0
       THEN /\ epoch' = 0
            /\ bidx' = 1
            /\ pc' = "stmt"
            /\ idx' = idx
       ELSE LeaveLoop
    /\ UNCHANGED <<stmtFrame, stdout, mode, printed, labels, logits, accuracy,
                   runs, trace>>

\* model.train()
ModelTrain ==
    /\ AtStmt("model.train")
    /\ mode' = "train"
    /\ trace' = Append(trace, [what |-> "epoch", source |-> "", epoch |-> epoch,
                               minibatches |-> 0])
    /\ Advance
    /\ UNCHANGED <<stmtFrame, stdout, printed, labels, logits, accuracy, runs>>

\* model.eval()
ModelEval ==
    /\ AtStmt("model.eval")
    /\ mode' = "eval"
    /\ Advance
    /\ UNCHANGED <<stmtFrame, stdout, printed, labels, logits, accuracy, runs, trace>>

\* logits = []; labels = []  /  predictions = []; labels = []
ResetLists ==
    /\ AtStmt("reset_lists")
    /\ logits' = << >>
    /\ labels' = << >>
    /\ Advance
    /\ UNCHANGED <<stmtFrame, stdout, mode, printed, accuracy, runs, trace>>

\* print(f"Epoch {epoch:03d} | Loss ...")
PrintLoss ==
    /\ AtStmt("print_loss")
    /\ stdout' = Append(stdout, "Epoch Loss")
    /\ printed' = [epoch |-> epoch, minibatches |-> step + 1]
    /\ Advance
    /\ UNCHANGED <<stmtFrame, mode, labels, logits, accuracy, runs, trace>>

\* predictions = np.concatenate(predictions); labels = np.concatenate(labels);
\* accuracy = accuracy_score(labels, predictions); print("Epoch {} Validation ...")
Score ==
    /\ AtStmt("score")
    /\ \E a \in 0 .. MaxAccuracy :
         /\ accuracy' = a
         /\ printed' = [epoch |-> epoch, accuracy |-> a]
         /\ trace' = Append(trace, [what |-> "accuracy", source |-> "",
                                    epoch |-> epoch, minibatches |-> Len(logits)])
    /\ stdout' = Append(stdout, "Epoch Validation Accuracy")
    /\ Advance
    /\ UNCHANGED <<stmtFrame, mode, labels, logits, runs>>

\* break
Break ==
    /\ AtStmt("break")
    /\ LeaveLoop
    /\ UNCHANGED <<stmtFrame, stdout, mode, printed, labels, logits, accuracy,
                   runs, trace>>

\* logits = torch.cat(logits); labels = torch.cat(labels);
\* auc = roc_auc_score(labels, logits); print("Link Prediction AUC:", auc)
Auc ==
    /\ AtStmt("auc")
    /\ stdout' = Append(stdout, "Link Prediction AUC")
    /\ printed' = [minibatches |-> Len(logits)]
    /\ runs' = Append(runs, delivered)
    /\ Advance
    /\ UNCHANGED <<stmtFrame, mode, labels, logits, accuracy, trace>>

\* The evaluation cell is executed again
RerunEvaluation ==
    /\ pc = "nb_done"
    /\ nbk = "link_prediction"
    /\ Len(runs) < MaxRuns
    /\ pc' = "stmt"
    /\ idx' = EvalCellStart
    /\ UNCHANGED <<stmtFrame, stdout, bidx, epoch, mode, printed, labels, logits,
                   accuracy, runs, trace>>

Next ==
    \/ LoadDataset
    \/ BuildItemSampler
    \/ BuildSampleUniformNegative
    \/ BuildSampleNeighbor
    \/ BuildFetchFeature
    \/ BuildToDgl
    \/ BuildCopyTo
    \/ BuildDataLoader
    \/ Peek
    \/ StartPass
    \/ ProduceItemSampler
    \/ ProduceNegative
    \/ ProduceNeighbor
    \/ ProduceFetch
    \/ ProduceToDgl
    \/ ProduceCopyTo
    \/ Yield
    \/ DeliverPeek
    \/ Deliver
    \/ Exhausted
    \/ Unpack
    \/ Forward
    \/ Optimize
    \/ Postfix
    \/ AppendResults
    \/ DefineModel
    \/ ForEpoch
    \/ ModelTrain
    \/ ModelEval
    \/ ResetLists
    \/ PrintLoss
    \/ Score
    \/ Break
    \/ Auc
    \/ RerunEvaluation

Spec == Init /\ [][Next]_vars

(***************************************************************************)
(* to_binary_link_dgl_computing_pack applied to arbitrary minibatches      *)
(***************************************************************************)

\* Longest positive and negative pair lists tried.
MaxPositives == 2

MaxNegatives == 2

PackNodes == {0, 1}

PairLists(n) ==
    UNION { [1 .. k -> PackNodes \X PackNodes] : k \in 0 .. n }

\* The DGLMiniBatch of a list of positive and a list of negative pairs.
PackInput(pos, neg) ==
    [positive_node_pairs |->
        << Tensor("int64", [i \in DOMAIN pos |-> pos[i][1]]),
           Tensor("int64", [i \in DOMAIN pos |-> pos[i][2]]) >>,
     negative_node_pairs |->
        << Tensor("int64", [i \in DOMAIN neg |-> neg[i][1]]),
           Tensor("int64", [i \in DOMAIN neg |-> neg[i][2]]) >>]

InitPack ==
    /\ nbk = "link_prediction"
    /\ pc = "call"
    /\ idx = 1
    /\ names = {"os", "torch", "np", "device", "dgl", "gb", "installed"}
    /\ environ = {"TORCH", "DGLBACKEND"}
    /\ installed = TRUE
    /\ error = NoException
    /\ stdout = << StatusLine(TRUE) >>
    /\ raised = NoException
    /\ graph = TriangleGraph
    /\ sets = << >>
    /\ datapipe = << >>
    /\ loaders = << >>
    /\ \E pos \in PairLists(MaxPositives), neg \in PairLists(MaxNegatives) :
         data = PackInput(pos, neg)
    /\ IdleIter
    /\ IdleLoop
    /\ IdleCells

\* compacted_pairs, labels = to_binary_link_dgl_computing_pack(data)
CallPack ==
    /\ pc = "call"
    /\ LET r == to_binary_link_dgl_computing_pack(data) IN
         /\ compacted_pairs' = r[1]
         /\ labels' = r[2]
    /\ pc' = "returned"
    /\ UNCHANGED <<bodyFrame, finished, label, y, logits, opt_steps, accuracy>>

NextPack == CallPack

SpecPack == InitPack /\ [][NextPack]_vars

(***************************************************************************)
(* The code cells after the guard cell, by the global names they read and  *)
(* bind                                                                    *)
(***************************************************************************)

\* A statement: its first line, the global names it reads and those it binds.
Ref(line, reads, binds) ==
    [line |-> line, reads |-> reads, binds |-> binds, package |-> ""]

\* import package.module as name / from package.module import name
ImportRef(line, package, name) ==
    [line |-> line, reads |-> {}, binds |-> {name}, package |-> package]

\* The walkthrough's code cells 2..11.
WalkthroughRefs ==
    << << Ref(65, {"torch"}, {"node_pairs"}),
          Ref(70, {"gb", "node_pairs"}, {"item_set"}),
          Ref(71, {"item_set"}, {}) >>,
       << Ref(91, {"torch"}, {"indptr"}),
          Ref(92, {"torch"}, {"indices"}),
          Ref(95, {}, {"num_edges"}),
          Ref(96, {"torch", "num_edges"}, {"eid"}),
          Ref(97, {"gb", "eid"}, {"edge_attributes"}),
          Ref(98, {"gb", "indptr", "indices", "edge_attributes"}, {"graph"}),
          Ref(99, {"graph"}, {}) >>,
       << Ref(119, {}, {"num_nodes"}),
          Ref(120, {}, {"num_edges"}),
          Ref(121, {"torch", "num_nodes"}, {"node_feature_data"}),
          Ref(122, {"torch", "num_edges"}, {"edge_feature_data"}),
          Ref(123, {"gb", "node_feature_data"}, {"node_feature"}),
          Ref(124, {"gb", "edge_feature_data"}, {"edge_feature"}),
          Ref(125, {"node_feature", "edge_feature"}, {"features"}),
          Ref(129, {"gb", "features"}, {"feature_store"}),
          Ref(130, {"feature_store"}, {}) >>,
       << Ref(154, {"gb", "item_set"}, {"datapipe"}),
          Ref(155, {"datapipe"}, {}) >>,
       << Ref(175, {"datapipe", "graph"}, {"datapipe"}),
          Ref(176, {"datapipe"}, {}) >>,
       << Ref(196, {"torch"}, {"fanouts"}),
          Ref(197, {"datapipe", "graph", "fanouts"}, {"datapipe"}),
          Ref(198, {"datapipe"}, {}) >>,
       << Ref(218, {"datapipe", "feature_store"}, {"datapipe"}),
          Ref(219, {"datapipe"}, {}) >>,
       << Ref(241, {"datapipe"}, {"datapipe"}),
          Ref(242, {"datapipe"}, {}) >>,
       << Ref(262, {"datapipe"}, {"datapipe"}),
          Ref(263, {"datapipe"}, {}) >>,
       << Ref(286, {}, {"num_nodes"}),
          Ref(287, {"torch", "num_nodes"}, {"nodes"}),
          Ref(288, {"torch"}, {"labels"}),
          Ref(289, {"gb", "nodes", "labels"}, {"item_set"}),
          Ref(291, {"torch"}, {"indptr"}),
          Ref(292, {"torch"}, {"indices"}),
          Ref(295, {"torch"}, {"eid"}),
          Ref(297, {"gb", "eid"}, {"edge_attributes"}),
          Ref(298, {"gb", "indptr", "indices", "edge_attributes"}, {"graph"}),
          Ref(300, {}, {"num_nodes"}),
          Ref(301, {}, {"num_edges"}),
          Ref(302, {"torch", "num_nodes"}, {"node_feature_data"}),
          Ref(303, {"torch", "num_edges"}, {"edge_feature_data"}),
          Ref(304, {"gb", "node_feature_data"}, {"node_feature"}),
          Ref(305, {"gb", "edge_feature_data"}, {"edge_feature"}),
          Ref(306, {"node_feature", "edge_feature"}, {"features"}),
          Ref(310, {"gb", "features"}, {"feature_store"}),
          Ref(313, {}, {}),
          Ref(314, {"datapipe"}, {}) >> >>

\* The link prediction notebook's code cells 2..10.
LinkPredictionRefs ==
    << << Ref(91, {"gb"}, {"dataset"}) >>,
       << Ref(111, {"dataset"}, {"graph"}),
          Ref(112, {"dataset"}, {"feature"}),
          Ref(113, {"dataset"}, {"train_set"}),
          Ref(114, {"dataset"}, {"test_set"}),
          Ref(115, {"dataset"}, {"task_name"}),
          Ref(116, {"task_name"}, {}) >>,
       << Ref(142, {"gb", "train_set"}, {"datapipe"}),
          Ref(143, {"datapipe", "graph"}, {"datapipe"}),
          Ref(144, {"datapipe", "graph"}, {"datapipe"}),
          Ref(145, {"datapipe", "feature"}, {"datapipe"}),
          Ref(146, {"datapipe"}, {"datapipe"}),
          Ref(147, {"datapipe", "device"}, {"datapipe"}),
          Ref(148, {"gb", "datapipe"}, {"train_dataloader"}) >>,
       << Ref(169, {"train_dataloader"}, {"data"}),
          Ref(170, {"data"}, {}) >>,
       << ImportRef(191, "dgl", "dglnn"),
          ImportRef(192, "torch", "nn"),
          ImportRef(193, "torch", "F"),
          Ref(196, {"nn"}, {"SAGE"}) >>,
       << Ref(238, {"feature"}, {"in_size"}),
          Ref(239, {"SAGE", "in_size", "device", "nn", "dglnn"}, {"model"}),
          Ref(240, {"torch", "model"}, {"optimizer"}) >>,
       << Ref(261, {"gb"}, {"to_binary_link_dgl_computing_pack"}) >>,
       << ImportRef(293, "tqdm", "tqdm"),
          Ref(294, {"model", "tqdm", "train_dataloader",
                    "to_binary_link_dgl_computing_pack", "torch", "F",
                    "optimizer"},
                   {"epoch", "total_loss", "step", "data", "compacted_pairs",
                    "labels", "node_feature", "blocks", "y", "logits",
                    "loss"}) >>,
       << Ref(338, {"model"}, {}),
          Ref(340, {"gb", "test_set"}, {"datapipe"}),
          Ref(343, {"datapipe", "graph"}, {"datapipe"}),
          Ref(344, {"datapipe", "feature"}, {"datapipe"}),
          Ref(345, {"datapipe"}, {"datapipe"}),
          Ref(346, {"datapipe", "device"}, {"datapipe"}),
          Ref(347, {"gb", "datapipe"}, {"eval_dataloader"}),
          Ref(349, {}, {"logits"}),
          Ref(350, {}, {"labels"}),
          Ref(351, {"eval_dataloader", "to_binary_link_dgl_computing_pack",
                    "torch", "model", "logits", "labels"},
                   {"step", "data", "compacted_pairs", "label", "x", "y",
                    "logit"}),
          Ref(369, {"torch", "logits"}, {"logits"}),
          Ref(370, {"torch", "labels"}, {"labels"}),
          ImportRef(374, "sklearn", "roc_auc_score"),
          Ref(376, {"roc_auc_score", "labels", "logits"}, {"auc"}),
          Ref(377, {"auc"}, {}) >> >>

\* The node classification notebook's code cells 2..10.
NodeClassificationRefs ==
    << << Ref(486, {"gb"}, {"dataset"}) >>,
       << Ref(506, {"dataset"}, {"graph"}),
          Ref(507, {"dataset"}, {"feature"}),
          Ref(508, {"dataset"}, {"train_set"}),
          Ref(509, {"dataset"}, {"valid_set"}),
          Ref(510, {"dataset"}, {"test_set"}),
          Ref(511, {"dataset"}, {"task_name"}),
          Ref(512, {"dataset"}, {"num_classes"}),
          Ref(513, {"task_name", "num_classes"}, {}) >>,
       << Ref(549, {"gb", "train_set"}, {"datapipe"}),
          Ref(550, {"datapipe", "graph"}, {"datapipe"}),
          Ref(551, {"datapipe", "feature"}, {"datapipe"}),
          Ref(552, {"datapipe"}, {"datapipe"}),
          Ref(553, {"datapipe", "device"}, {"datapipe"}),
          Ref(554, {"gb", "datapipe"}, {"train_dataloader"}) >>,
       << Ref(575, {"train_dataloader"}, {"data"}),
          Ref(576, {"data"}, {}) >>,
       << Ref(596, {"data"}, {"mfgs"}),
          Ref(597, {"mfgs", "dgl"}, {"input_nodes"}),
          Ref(598, {"input_nodes"}, {}) >>,
       << ImportRef(620, "torch", "nn"),
          ImportRef(621, "torch", "F"),
          ImportRef(622, "dgl", "SAGEConv"),
          Ref(625, {"nn"}, {"Model"}),
          Ref(639, {"feature"}, {"in_size"}),
          Ref(640, {"Model", "in_size", "num_classes", "device", "SAGEConv"},
                   {"model"}) >>,
       << Ref(662, {"torch", "model"}, {"opt"}) >>,
       << Ref(682, {"gb", "valid_set"}, {"datapipe"}),
          Ref(683, {"datapipe", "graph"}, {"datapipe"}),
          Ref(684, {"datapipe", "feature"}, {"datapipe"}),
          Ref(685, {"datapipe"}, {"datapipe"}),
          Ref(686, {"datapipe", "device"}, {"datapipe"}),
          Ref(687, {"gb", "datapipe"}, {"valid_dataloader"}),
          ImportRef(690, "sklearn", "sklearn") >>,
       << ImportRef(710, "tqdm", "tqdm"),
          Ref(712, {"model", "tqdm", "train_dataloader", "F", "opt", "sklearn",
                    "valid_dataloader", "torch", "np"},
                   {"epoch", "tq", "step", "data", "x", "labels",
                    "predictions", "loss", "accuracy"}) >> >>

CellsOf(n) ==
    IF n = "walkthrough" THEN WalkthroughRefs
    ELSE IF n = "link_prediction" THEN LinkPredictionRefs
    ELSE NodeClassificationRefs

RECURSIVE Concat(_)
Concat(cells) ==
    IF cells = << >> THEN << >> ELSE Head(cells) \o Concat(Tail(cells))

\* The same statements written as one cell after the guard cell.
RefsInOneCell(n) == << Concat(CellsOf(n)) >>

\* The same cells, the first of them consulting the flag the guard cell set.
RefsCheckingInstalled(n) ==
    LET first == CellsOf(n)[1][1] IN
    [CellsOf(n) EXCEPT ![1][1] =
        Ref(first.line, first.reads \cup {"installed"}, first.binds)]

\* The code cells of notebook n that follow the guard cell; Refs(n)[k] is
\* cell k+1.
Refs(n) == CellsOf(n)

NumCells(n) == 1 + Len(Refs(n))

\* The cell whose turn it is has ended, normally or by an exception.
CellEnded == pc \in {"cell_done", "cell_raised", "guard_raised"}

\* The cell that last bound a name: the guard cell unless a later one did.
BoundCell(name) ==
    IF \E b \in bound_in : b.name = name
    THEN (CHOOSE b \in bound_in : b.name = name).cell
    ELSE 1

NameError == [exc |-> "NameError", msg |-> "name is not defined"]

kernelFrame ==
    <<nbk, environ, installed, error, stdout, dataVars, pipeVars, iterVars,
      loopVars>>

\* The next cell is run: nothing a cell left behind, an exception or a
\* value, stands in the way.
StartCell ==
    /\ CellEnded
    /\ cell < NumCells(nbk)
    /\ cell' = cell + 1
    /\ idx' = 1
    /\ pc' = "cell"
    /\ raised' = NoException
    /\ UNCHANGED <<kernelFrame, names, bound_in, cross_reads>>

EndStatement ==
    /\ idx' = idx + 1
    /\ pc' = IF idx = Len(Refs(nbk)[cell - 1]) THEN "cell_done" ELSE "cell"

\* A statement whose names are all bound runs: it reads them and binds its
\* targets in the kernel's namespace.
RunStatement ==
    /\ pc = "cell"
    /\ LET s == Refs(nbk)[cell - 1][idx] IN
         /\ s.package = ""
         /\ s.reads \subseteq names
         /\ names' = names \cup s.binds
         /\ bound_in' = { b \in bound_in : b.name \notin s.binds }
                          \cup { [name |-> v, cell |-> cell] : v \in s.binds }
         /\ cross_reads' = cross_reads
                             \cup { [name |-> v, bound |-> BoundCell(v),
                                     read |-> cell] :
                                    v \in { w \in s.reads : BoundCell(w) < cell } }
    /\ EndStatement
    /\ UNCHANGED <<kernelFrame, cell, raised>>

\* A statement that reads an unbound name raises NameError, which ends the cell.
RaiseNameError ==
    /\ pc = "cell"
    /\ LET s == Refs(nbk)[cell - 1][idx] IN
         /\ s.package = ""
         /\ ~(s.reads \subseteq names)
    /\ raised' = NameError
    /\ pc' = "cell_raised"
    /\ UNCHANGED <<kernelFrame, cell, idx, names, bound_in, cross_reads>>

\* An import in a later cell: a module of the guarded package is found
\* exactly when the guard cell's `import dgl` found the package.
RunImport ==
    /\ pc = "cell"
    /\ LET s == Refs(nbk)[cell - 1][idx] IN
         /\ s.package # ""
         /\ IF s.package = "dgl" /\ "dgl" \notin names
            THEN /\ raised' = [exc |-> "ModuleNotFoundError",
                               msg |-> "No module named"]
                 /\ pc' = "cell_raised"
                 /\ UNCHANGED <<idx, names, bound_in>>
            ELSE /\ names' = names \cup s.binds
                 /\ bound_in' = { b \in bound_in : b.name \notin s.binds }
                                  \cup { [name |-> v, cell |-> cell] :
                                         v \in s.binds }
                 /\ EndStatement
                 /\ raised' = raised
    /\ UNCHANGED <<kernelFrame, cell, cross_reads>>

NextKernel ==
    \/ NextGuard
    \/ StartCell
    \/ RunStatement
    \/ RaiseNameError
    \/ RunImport

SpecKernel == InitGuard /\ [][NextKernel]_vars


(***************************************************************************)
(* Properties                                                              *)
(***************************************************************************)

LP == "link_prediction"

NC == "node_classification"

BodyPcs == {"unpack", "forward", "optimize", "postfix", "append"}

StageOrder ==
    <<"ItemSampler", "sample_uniform_negative", "sample_neighbor",
      "fetch_feature", "to_dgl", "copy_to">>

Rank(op) == CHOOSE k \in DOMAIN StageOrder : StageOrder[k] = op

Ops(pipe) == [i \in DOMAIN pipe |-> pipe[i].op]

InOrder(pipe) ==
    \A i, j \in DOMAIN pipe : i < j => Rank(pipe[i].op) < Rank(pipe[j].op)

HasStage(pipe, op) == \E i \in DOMAIN pipe : pipe[i].op = op

\* The pipelines whose construction is over: those handed to a data loader,
\* and the walkthrough's once its last cell has run.
CompletePipelines ==
    { loaders[l].datapipe : l \in DOMAIN loaders }
    \cup (IF nbk = "walkthrough" /\ pc = "nb_done" THEN {datapipe} ELSE {})

IsPrefix(a, b) == Len(a) <= Len(b) /\ a = SubSeq(b, 1, Len(a))

NumBatches(n, batch_size) == (n + batch_size - 1) \div batch_size

Count(t, v) == Cardinality({ i \in DOMAIN t.data : t.data[i] = v })

\* C1: to_binary_link_dgl_computing_pack returns, for a minibatch with P
\* positive and N negative pairs, (src, dst) of length P+N each holding the
\* positive pairs in their order followed by the negative pairs in their
\* order, and labels of length P+N with entry i equal to 1 exactly when
\* i <= P; the minibatch is left as it was.
C1_PackPairsThenLabels ==
    [][pc = "call" =>
         LET pos == data.positive_node_pairs
             neg == data.negative_node_pairs
             P   == Len(pos[1].data)
             N   == Len(neg[1].data)
         IN /\ data' = data
            /\ Len(compacted_pairs') = 2
            /\ \A c \in 1 .. 2 :
                 /\ Len(compacted_pairs'[c].data) = P + N
                 /\ \A i \in 1 .. P + N :
                      compacted_pairs'[c].data[i] =
                        IF i <= P THEN pos[c].data[i] ELSE neg[c].data[i - P]
            /\ Len(labels'.data) = P + N
            /\ labels'.dtype = "float32"
            /\ \A i \in 1 .. P + N : labels'.data[i] = IF i <= P THEN 1 ELSE 0
    ]_vars

C1_Witness ==
    /\ pc = "returned"
    /\ data.positive_node_pairs[1].data = <<0, 1>>
    /\ data.negative_node_pairs[1].data = <<1, 0>>
    /\ compacted_pairs[1].data = <<0, 1, 1, 0>>
    /\ labels.data = <<1, 1, 0, 0>>

\* C2 as stated: every pipeline of the notebooks holds all six stages, in the
\* order sample items, sample negatives, sample neighbors, fetch features,
\* convert, move to device.
C2_AllSixStages == \A p \in CompletePipelines : Ops(p) = StageOrder

\* C2: every pipeline chains its stages in the listed order and holds every
\* stage but possibly the negative sampler, which only the walkthrough and the
\* link prediction training pipeline have; a data loader (the walkthrough
\* builds none) is built only after the move to the device.
C2_StagesInOrder ==
    /\ InOrder(datapipe)
    /\ \A l \in DOMAIN loaders :
         LET p == loaders[l].datapipe IN
         /\ p[Len(p)].op = "copy_to"
         /\ HasStage(p, "sample_uniform_negative")
              <=> (nbk = LP /\ l = "train_dataloader")
    /\ \A p \in CompletePipelines :
         /\ InOrder(p)
         /\ Range(Ops(p)) \cup {"sample_uniform_negative"} = Range(StageOrder)
    /\ nbk = "walkthrough" =>
         /\ DOMAIN loaders = {}
         /\ pc = "nb_done" => Ops(datapipe) = StageOrder

C2_Witness ==
    /\ nbk = LP
    /\ DOMAIN loaders = {"train_dataloader", "eval_dataloader"}
    /\ Len(loaders["eval_dataloader"].datapipe) = 5

TrainPassOf(e, ev) ==
    ev.what = "pass" /\ ev.source = "train_dataloader" /\ ev.epoch = e

ValidPassOf(e, ev) ==
    ev.what = "pass" /\ ev.source = "valid_dataloader" /\ ev.epoch = e

\* C3 as stated: for every epoch index in range(10) a training pass is
\* followed by a validation pass and a printed validation accuracy.
C3_TenEpochsValidated ==
    (nbk = NC /\ pc = "nb_done") =>
      \A e \in 0 .. 9 :
        \E i, j, k \in DOMAIN trace :
          /\ i < j /\ j < k
          /\ TrainPassOf(e, trace[i])
          /\ ValidPassOf(e, trace[j])
          /\ trace[k].what = "accuracy" /\ trace[k].epoch = e

\* What the node classification loop does, given the item-set sizes.
OneEpoch ==
    LET nt == NumBatches(Len(sets["train_set"].items), 1024)
        nv == NumBatches(Len(sets["valid_set"].items), 1024)
    IN << [what |-> "epoch", source |-> "", epoch |-> 0, minibatches |-> 0],
          [what |-> "pass", source |-> "train_dataloader", epoch |-> 0,
           minibatches |-> nt],
          [what |-> "pass", source |-> "valid_dataloader", epoch |-> 0,
           minibatches |-> nv],
          [what |-> "accuracy", source |-> "", epoch |-> 0, minibatches |-> nv] >>

\* C3: the loop's body validates after training, and the loop breaks at the
\* end of its first iteration: only epoch 0 runs, its training pass over
\* train_dataloader is followed by a complete validation pass over
\* valid_dataloader and a printed validation accuracy, and the loop ends.
C3_ValidationAfterTraining ==
    nbk = NC =>
      /\ epoch = 0
      /\ IsPrefix(trace, OneEpoch)
      /\ pc = "nb_done" =>
           /\ trace = OneEpoch
           /\ stdout[Len(stdout)] = "Epoch Validation Accuracy"
           /\ printed = [epoch |-> 0, accuracy |-> accuracy]

C3_Witness ==
    /\ nbk = NC
    /\ pc = "nb_done"
    /\ Len(trace) = 4
    /\ trace[2].minibatches = 2
    /\ trace[3].minibatches = 2

\* C4: once an epoch's validation accuracy exceeds every earlier epoch's (the
\* first epoch's always does), the model has been written to a file.
C4_BestModelSaved ==
    (nbk = NC /\ \E i \in DOMAIN trace : trace[i].what = "accuracy")
      => model_file # NoFile

\* C5: the import guard lets no ImportError escape: the cell completes, sets
\* installed to True exactly when the imports succeeded, prints the error only
\* when one failed, and prints exactly one status line, "DGL installed!" when
\* installed is True and "DGL not found!" otherwise.
C5_ImportGuard ==
    /\ pc = "guard_raised" => ~IsSubclass(raised.exc, "ImportError")
    /\ pc \in {"try", "set_installed", "except", "except_print", "status",
               "cell_done"} => raised = NoException
    /\ pc = "cell_done" =>
         /\ "installed" \in names
         /\ installed <=> error = NoException
         /\ installed <=> "gb" \in names
         /\ stdout = IF installed
                     THEN << "DGL installed!" >>
                     ELSE << error.msg, "DGL not found!" >>

C5_Witness ==
    /\ nbk = LP
    /\ pc = "cell_done"
    /\ "dgl" \in names
    /\ error.exc = "ImportError"
    /\ ~installed
    /\ stdout = << "cannot import name", "DGL not found!" >>

\* C6: every minibatch train_dataloader delivers to the link prediction
\* training loop with P positive pairs carries exactly 5*P negative pairs,
\* and the label vector built from it has length 6*P with exactly P ones.
C6_FiveNegativesPerPositive ==
    (nbk = LP /\ pass.source = "train_dataloader" /\ pc \in BodyPcs) =>
      LET P == Len(data.positive_node_pairs[1].data) IN
      /\ P >= 1
      /\ Len(data.positive_node_pairs[2].data) = P
      /\ Len(data.negative_node_pairs[1].data) = 5 * P
      /\ Len(data.negative_node_pairs[2].data) = 5 * P
      /\ pc # "unpack" =>
           /\ Len(labels.data) = 6 * P
           /\ Count(labels, 1) = P
           /\ Count(labels, 0) = 5 * P

C6_Witness ==
    /\ nbk = LP
    /\ pass.source = "train_dataloader"
    /\ pc = "forward"
    /\ Len(data.positive_node_pairs[1].data) = 256
    /\ Len(labels.data) = 1536

AllNeighborhoods(mb) ==
    /\ Len(mb.blocks) = 2
    /\ \A l \in DOMAIN mb.blocks :
         \A v \in mb.blocks[l].dst_nodes :
           InEdges(graph, v) \subseteq mb.blocks[l].edges

\* C8: the evaluation pipeline keeps every in-neighbor of every node reached
\* at each of its two layers, and two runs of it over the same dataset yield
\* the same sequence of minibatches.
C8_AllNeighborhoodsSameRuns ==
    nbk = LP =>
      /\ "eval_dataloader" \in DOMAIN loaders =>
           LET p == loaders["eval_dataloader"].datapipe IN
           /\ p[1].item_set = "test_set" /\ ~p[1].shuffle
           /\ p[2].op = "sample_neighbor" /\ p[2].fanouts = <<-1, -1>>
      /\ \A i \in DOMAIN delivered : AllNeighborhoods(delivered[i])
      /\ \A i, j \in DOMAIN runs : runs[i] = runs[j]

C8_Witness ==
    /\ nbk = LP
    /\ Len(runs) = 2
    /\ Len(runs[1]) = 2
    /\ \E v \in runs[2][1].blocks[1].dst_nodes : Cardinality(InEdges(graph, v)) >= 3

NotNegative(st) == st.op # "sample_uniform_negative"

Stages(stmts) == SubSeq(stmts, 1, Len(stmts) - 1)

FirstThree == << <<7, 0>>, <<6, 0>>, <<1, 3>> >>

\* C10: over the walkthrough's 25 node pairs with batch_size=3 and
\* shuffle=False, the ItemSampler yields the items in item-set order as
\* consecutive batches holding every item once, 3 items each but the last,
\* and the first batch is [7,0], [6,0], [1,3].
C10_ItemSamplerBatches ==
    (nbk = "walkthrough" /\ datapipe # << >>) =>
      LET head  == datapipe[1]
          items == sets[head.item_set].items
          nb    == NumBatches(Len(items), head.batch_size)
      IN /\ Len(items) = 25
         /\ nb = 9
         /\ \A r \in Seeds :
              LET order == ItemOrder(items, head.shuffle, r)
                  batch(k) == ItemBatch(sets[head.item_set].names, order,
                                        (k - 1) * head.batch_size,
                                        head.batch_size).node_pairs
              IN /\ \A k \in 1 .. nb - 1 : Len(batch(k)) = 3
                 /\ Len(batch(nb)) = 1
                 /\ \A i \in 1 .. 25 :
                      batch(((i - 1) \div 3) + 1)[((i - 1) % 3) + 1] = node_pairs[i]
                 /\ batch(1) = FirstThree
         /\ (pc = "stmt" /\ idx = 4) => printed = [node_pairs |-> FirstThree]

C10_Witness ==
    /\ nbk = "walkthrough"
    /\ pc = "stmt"
    /\ idx = 4
    /\ printed = [node_pairs |-> FirstThree]

\* The names the notebooks bind to an item set, a sampling graph, a feature
\* store, a datapipe or a minibatch.
LibraryObjects ==
    {"item_set", "train_set", "valid_set", "test_set", "graph",
     "feature_store", "feature", "datapipe", "data"}

ObjectReads == { r \in cross_reads : r.name \in LibraryObjects }

CrossRead(name, bound, read) == [name |-> name, bound |-> bound, read |-> read]

\* The guard cell found the package, so every later statement finds its names.
GuardFoundPackage == "installed" \in names /\ installed

LastCellDone == cell = NumCells(nbk) /\ pc = "cell_done"

ExpectedObjectReads(n) ==
    IF n = "walkthrough"
    THEN { CrossRead("item_set", 2, 5), CrossRead("graph", 3, 6),
           CrossRead("graph", 3, 7), CrossRead("feature_store", 4, 8),
           CrossRead("datapipe", 5, 6), CrossRead("datapipe", 6, 7),
           CrossRead("datapipe", 7, 8), CrossRead("datapipe", 8, 9),
           CrossRead("datapipe", 9, 10), CrossRead("datapipe", 10, 11) }
    ELSE IF n = LP
    THEN { CrossRead("graph", 3, 4), CrossRead("graph", 3, 10),
           CrossRead("feature", 3, 4), CrossRead("feature", 3, 7),
           CrossRead("feature", 3, 10), CrossRead("train_set", 3, 4),
           CrossRead("test_set", 3, 10) }
    ELSE { CrossRead("graph", 3, 4), CrossRead("graph", 3, 9),
           CrossRead("feature", 3, 4), CrossRead("feature", 3, 7),
           CrossRead("feature", 3, 9), CrossRead("train_set", 3, 4),
           CrossRead("valid_set", 3, 9), CrossRead("data", 5, 6) }

\* C11 as stated: no name bound to an item set, sampling graph, feature
\* store, datapipe or minibatch in one cell is read by a later cell.
C11_TransientReferences == ObjectReads = {}

\* C11: the names bound to library objects are globals of the kernel that
\* outlive their cell, and later cells read them: the item set, the graph,
\* the feature store and the datapipe of the walkthrough, the graph, the
\* feature store and the item sets of both training notebooks, and the
\* minibatch of the node classification notebook are each bound in one cell
\* and read in a later one, and in no other way across cells.
C11_ObjectsOutliveCells ==
    /\ \A r \in cross_reads : r.bound < r.read /\ r.read <= cell
    /\ ObjectReads \subseteq ExpectedObjectReads(nbk)
    /\ (GuardFoundPackage /\ LastCellDone) =>
         ObjectReads = ExpectedObjectReads(nbk)

C11_Witness ==
    /\ nbk = "walkthrough"
    /\ GuardFoundPackage
    /\ LastCellDone
    /\ cell = 11
    /\ CrossRead("datapipe", 5, 6) \in cross_reads
    /\ Cardinality(ObjectReads) = 10

\* C12: no cell after the guard cell reads the installed flag, so no later
\* cell is skipped or guarded when the import failed: the next cell can
\* always be run, and the first later cell that uses gb, the second cell of
\* each notebook, then fails with a NameError.
C12_NoRecovery ==
    /\ \A k \in DOMAIN Refs(nbk) : \A i \in DOMAIN Refs(nbk)[k] :
         "installed" \notin Refs(nbk)[k][i].reads
    /\ \A r \in cross_reads : r.name # "installed"
    /\ \E i \in DOMAIN Refs(nbk)[1] : "gb" \in Refs(nbk)[1][i].reads
    /\ (CellEnded /\ cell < NumCells(nbk)) => ENABLED StartCell
    /\ (cell = 2 /\ pc \in {"cell_done", "cell_raised"}
          /\ "installed" \in names /\ ~installed) =>
         /\ "gb" \notin names
         /\ pc = "cell_raised"
         /\ raised = NameError
         /\ "gb" \in Refs(nbk)[1][idx].reads
         /\ \A i \in 1 .. idx - 1 : "gb" \notin Refs(nbk)[1][i].reads

C12_Witness ==
    /\ nbk = "walkthrough"
    /\ cell = 2
    /\ pc = "cell_raised"
    /\ "installed" \in names
    /\ ~installed
    /\ stdout = << "No module named", "DGL not found!" >>
    /\ raised = NameError
    /\ "node_pairs" \in names
    /\ Refs(nbk)[1][idx].line = 70

====
